---- MODULE Spec2Model ----
(***************************************************************************)
(* LocustWMS: LocustMapServerImporter.process(), _warpToEPSG(), main() and *)
(* Utils.GDALErrorHandler / getGDALRasterExtents as a state machine.       *)
(*                                                                         *)
(* Names of files and directories are sequences of tokens, chosen so that  *)
(* every string operation of the code ("RGB" in fl, fl.endswith("ovr"),   *)
(* split(".")[0], str(dstEPSG) + "_mapserver_" + fl, strptime) is an       *)
(* operation on tokens.  Date directory names are sequences of characters. *)
(***************************************************************************)
EXTENDS Integers, Sequences, FiniteSets, TLC

\* ------------------------------------------------------------------ bounds
MaxRuns == 2
MaxRegions == 2

\* --------------------------------------------------------------- constants
\* def process(self, dstEPSG: int = 4326)
DefaultEPSG == 4326

\* the destination codes a caller of process() passes
DstCodes == {DefaultEPSG, 3857}

\* ----------------------------------------------------------------- helpers
Range(s) == {s[i] : i \in 1..Len(s)}

\* str(dstEPSG)
Str(code) ==
  CASE code = 4326 -> "4326"
    [] code = 3857 -> "3857"
    [] code = 32636 -> "32636"

\* int(proj.GetAttrValue("AUTHORITY", 1)) applied to the text the engine stores
AuthorityCode(tok) ==
  CASE tok = "4326" -> 4326
    [] tok = "3857" -> 3857
    [] tok = "32636" -> 32636

\* ------------------------------------------------------ file system names
FileA == <<"a_", "RGB", ".", "tif">>
FileB == <<"b_", "RGB", ".", "tif">>
FileNotes == <<"notes", ".", "txt">>

Archive == <<"archive">>
MapFile == <<"mapserver", ".", "map">>
Dir0115 == <<"2", "0", "2", "3", "0", "1", "1", "5">>
Dir0101 == <<"2", "0", "2", "3", "0", "1", "0", "1">>
Dir1301 == <<"2", "0", "2", "3", "1", "3", "0", "1">>
Dir115 == <<"2", "0", "2", "3", "1", "1", "5">>

\* ------------------------------------------------------------- strptime
DigitChars == {"0", "1", "2", "3", "4", "5", "6", "7", "8", "9"}

DigitVal(c) ==
  CASE c = "0" -> 0 [] c = "1" -> 1 [] c = "2" -> 2 [] c = "3" -> 3
    [] c = "4" -> 4 [] c = "5" -> 5 [] c = "6" -> 6 [] c = "7" -> 7
    [] c = "8" -> 8 [] c = "9" -> 9

IsDigitAt(s, i) == i <= Len(s) /\ s[i] \in DigitChars

Num2(s, i) == 10 * DigitVal(s[i]) + DigitVal(s[i + 1])

\* the lengths the directive %m can take at position i, in the order the
\* regular expression 1[0-2]|0[1-9]|[1-9] tries them
MonthLens(s, i) ==
  (IF IsDigitAt(s, i) /\ IsDigitAt(s, i + 1) /\ Num2(s, i) \in 1..12
     THEN <<2>> ELSE <<>>)
  \o (IF IsDigitAt(s, i) /\ DigitVal(s[i]) \in 1..9 THEN <<1>> ELSE <<>>)

\* the same for %d: 3[01]|[12]\d|0[1-9]|[1-9]
DayLens(s, i) ==
  (IF IsDigitAt(s, i) /\ IsDigitAt(s, i + 1) /\ Num2(s, i) \in 1..31
     THEN <<2>> ELSE <<>>)
  \o (IF IsDigitAt(s, i) /\ DigitVal(s[i]) \in 1..9 THEN <<1>> ELSE <<>>)

FieldVal(s, i, n) == IF n = 2 THEN Num2(s, i) ELSE DigitVal(s[i])

IsLeap(y) == (y % 4 = 0 /\ y % 100 # 0) \/ y % 400 = 0

DaysInMonth(y, m) ==
  CASE m \in {4, 6, 9, 11} -> 30
    [] m = 2 -> IF IsLeap(y) THEN 29 ELSE 28
    [] OTHER -> 31

NoDate == <<>>

\* datetime.strptime(date, "%Y%m%d").isoformat()[0:10]: the first match of
\* the format's regular expression, which must consume the whole name and
\* name a day of the calendar; NoDate stands for the ValueError.  The result
\* is the triple <<year, month, day>>: the text is zero padded to a fixed
\* width, so the order of the texts is the order of the triples.
ParseDate(s) ==
  IF ~(\A i \in 1..4 : IsDigitAt(s, i)) THEN NoDate
  ELSE
    LET y == 1000 * DigitVal(s[1]) + 100 * DigitVal(s[2])
               + 10 * DigitVal(s[3]) + DigitVal(s[4])
        ms == MonthLens(s, 5)
        fits == {k \in 1..Len(ms) : DayLens(s, 5 + ms[k]) # <<>>}
    IN IF fits = {} THEN NoDate
       ELSE
         LET k == CHOOSE k \in fits : \A j \in fits : k <= j
             ml == ms[k]
             dl == DayLens(s, 5 + ml)[1]
             m == FieldVal(s, 5, ml)
             d == FieldVal(s, 5 + ml, dl)
         IN IF 4 + ml + dl # Len(s) THEN NoDate
            ELSE IF y < 1 \/ d > DaysInMonth(y, m) THEN NoDate
            ELSE <<y, m, d>>

\* x.date > y.date on the ISO texts
DateGreater(a, b) ==
  \/ a[1] > b[1]
  \/ a[1] = b[1] /\ a[2] > b[2]
  \/ a[1] = b[1] /\ a[2] = b[2] /\ a[3] > b[3]


\* ------------------------------------------------------- string operations
Overview(fl) == fl \o <<".", "ovr">>

EndsWithOvr(fl) == Len(fl) > 0 /\ fl[Len(fl)] = "ovr"

ContainsRGB(fl) == "RGB" \in Range(fl)

QualifiesNoArtifacts(fl) ==
  ~EndsWithOvr(fl) /\ ContainsRGB(fl) /\ "_mapserver_" \notin Range(fl)

\* line 100; os.path.isdir(fl) looks fl up in the working directory of the
\* process, which holds no directory of these names
Qualifies(fl) == ~EndsWithOvr(fl) /\ ContainsRGB(fl)

\* str(dstEPSG) + "_mapserver_" + fl
WarpName(dstEPSG, fl) == <<Str(dstEPSG), "_mapserver_">> \o fl

\* os.path.split(inFile)[-1].split(".")[0]
BaseName(fl) ==
  LET dots == {i \in 1..Len(fl) : fl[i] = "."}
      cut == IF dots = {} THEN Len(fl) + 1
             ELSE CHOOSE i \in dots : \A j \in dots : i <= j
  IN SubSeq(fl, 1, cut - 1)

\* ------------------------------------------------------------ raster engine
IsArtifact(fl) == Len(fl) >= 2 /\ fl[2] = "_mapserver_"

\* the authority code stored in the file: a warped file carries the code it
\* was warped to, a_RGB.tif is delivered in EPSG:4326, b_RGB.tif in UTM 36N
FileEPSG(fl) ==
  IF IsArtifact(fl) THEN AuthorityCode(fl[1])
  ELSE IF fl = FileA THEN 4326 ELSE 32636

\* RasterXSize, RasterYSize and GetGeoTransform() of the file: warping
\* resamples the raster onto another grid
RasterOf(fl) ==
  IF IsArtifact(fl)
    THEN [epsg |-> FileEPSG(fl), RasterXSize |-> 5,
          RasterYSize |-> 2, gt |-> <<30, 1, 0, 40, 0, -1>>]
    ELSE [epsg |-> FileEPSG(fl), RasterXSize |-> 4,
          RasterYSize |-> 3, gt |-> <<500, 10, 0, 900, 0, -10>>]

\* a dataset handle is the path it was opened on (GetDescription()); None
\* is what _warpToEPSG returns when the open fails
None == <<>>

getGDALRasterExtents(inData) ==
  LET gt == inData.gt
  IN << gt[1],
        gt[4] + gt[5] * inData.RasterXSize + gt[6] * inData.RasterYSize,
        gt[1] + gt[2] * inData.RasterXSize + gt[3] * inData.RasterYSize,
        gt[4] >>

NeedsWarpAlways(flEPSG, dstEPSG) == TRUE

NeedsWarp(flEPSG, dstEPSG) == flEPSG # dstEPSG


\* ------------------------------------------------------------------- state
VARIABLES
  run,         \* number of the current invocation, 1..MaxRuns
  call,        \* how the program is invoked: main() or process()
  engine,      \* the file the raster engine fails on, and how
  pc,          \* position in main() / process()
  error,       \* the exception that ended the invocation, "none" if none
  disk,        \* rootDir: sequence of regions, each a sequence of entries
  dstEPSG,     \* parameter of process()
  last_error,  \* GDALErrorHandler.last_error is not None
  ri,          \* index of the region of the for loop at line 85
  dateList,    \* os.listdir(regionPath) of line 91
  di,          \* index into dateList
  listing,     \* os.listdir(datePath) of line 99
  fi,          \* index into listing
  inDt,        \* the handle _warpToEPSG returned for the last file
  layerList,   \* the region catalog
  latestDate,  \* line 143
  i,           \* line 145
  skipped,     \* files of the date directory whose "Error: " was printed
  warped,      \* files gdal.Warp wrote while the date directory was walked
  removed,     \* why os.remove(overview) was called for the last file
  exported     \* regions of the MapServer(...).process() calls so far

vars == <<run, call, engine, pc, error, disk, dstEPSG, last_error, ri, dateList, di,
          listing, fi, inDt, layerList, latestDate, i, skipped, warped,
          removed, exported>>

loopVars == <<ri, dateList, di, listing, fi, inDt, layerList, latestDate, i,
              skipped, warped, removed, exported>>

\* ------------------------------------------------------------ initial disk
Entry(name, isDir, files) == [name |-> name, isDir |-> isDir, files |-> files]

\* the date directories a region may hold, in the order os.listdir gives
DateDirs ==
  << Entry(Dir0101, TRUE, <<FileB, FileNotes>>),
     Entry(Dir0115, TRUE, <<FileB, FileA>>),
     Entry(Dir1301, TRUE, <<FileA>>),
     Entry(Dir115, TRUE, <<FileA>>) >>

\* every region holds an archive directory and the map file of an earlier
\* export, and any of the date directories
RegionLayouts ==
  { <<Entry(Archive, TRUE, <<FileB>>), Entry(MapFile, FALSE, <<>>)>>
      \o SelectSeq(DateDirs, LAMBDA e : e.name \in chosen)
    : chosen \in {{}, {Dir0115}, {Dir0101, Dir0115},
                   {Dir0101, Dir0115, Dir1301}, {Dir0115, Dir115}} }

Disks == UNION {[1..n -> RegionLayouts] : n \in 1..MaxRegions}

\* main() with len(sys.argv) = argc, under python or python -O, or a caller
\* of process(dst)
ArgCounts == 1..3

Calls ==
  {[via |-> "main", argc |-> n, optimized |-> o, dst |-> DefaultEPSG]
     : n \in ArgCounts, o \in BOOLEAN}
  \cup {[via |-> "process", argc |-> 0, optimized |-> FALSE, dst |-> d]
          : d \in DstCodes}

\* the raster engine on this root directory: every operation succeeds
\* silently, except that on the files named engine.file the operation
\* engine.fault raises and the operation engine.hook reports an error to
\* the installed error handler.  b_RGB.tif is warped under every
\* destination code, so no b_RGB.tif.ovr is ever there to be opened.
Engines ==
  {[file |-> FileA, fault |-> "none", hook |-> "none"]}
  \cup {[file |-> FileA, fault |-> x, hook |-> "none"]
          : x \in {"open", "warp", "ovropen", "build", "extent"}}
  \cup {[file |-> FileB, fault |-> x, hook |-> "none"]
          : x \in {"open", "warp", "build", "extent"}}
  \cup {[file |-> FileA, fault |-> "none", hook |-> h]
          : h \in {"pre", "ovr", "post"}}
  \cup {[file |-> FileB, fault |-> "none", hook |-> h]
          : h \in {"pre", "post"}}

Init ==
  /\ run = 1
  /\ call \in Calls
  /\ engine \in Engines
  /\ pc = "start"
  /\ error = "none"
  /\ disk \in Disks
  /\ dstEPSG = DefaultEPSG
  /\ last_error = FALSE
  /\ ri = 0
  /\ dateList = <<>>
  /\ di = 0
  /\ listing = <<>>
  /\ fi = 0
  /\ inDt = None
  /\ layerList = <<>>
  /\ latestDate = NoDate
  /\ i = 0
  /\ skipped = {}
  /\ warped = {}
  /\ removed = "none"
  /\ exported = <<>>


\* ------------------------------------------------------------ disk access
EntryOf(d, r, name) ==
  LET k == CHOOSE k \in 1..Len(d[r]) : d[r][k].name = name IN d[r][k]

Files(d, r, name) == EntryOf(d, r, name).files

SetFiles(d, r, name, files) ==
  [d EXCEPT ![r] = [k \in 1..Len(d[r]) |->
     IF d[r][k].name = name THEN [d[r][k] EXCEPT !.files = files]
     ELSE d[r][k]]]

\* a file written into a directory: a new name is listed last
AddFile(files, fl) == IF fl \in Range(files) THEN files ELSE Append(files, fl)

\* os.remove
DelFile(files, fl) == SelectSeq(files, LAMBDA f : f # fl)

\* ------------------------------------------------------------------ main()
\* line 170: the condition of the assert
UsageAssert(argc) == argc < 3

BeginProcess(dst) ==
  /\ dstEPSG' = dst
  /\ last_error' = FALSE
  /\ ri' = 0
  /\ pc' = "region"
  /\ error' = "none"
  /\ UNCHANGED <<run, call, engine, disk, dateList, di, listing, fi, inDt,
                 layerList, latestDate, i, skipped, warped, removed, exported>>

\* lines 163-174; python -O removes the assert statement.  sys.argv[2] of
\* line 173 raises IndexError when fewer than three entries are there.
Main ==
  /\ pc = "start"
  /\ call.via = "main"
  /\ IF ~call.optimized /\ ~UsageAssert(call.argc)
       THEN /\ pc' = "exit"
            /\ error' = "AssertionError: usage"
            /\ UNCHANGED <<run, call, engine, disk, dstEPSG, last_error,
                           loopVars>>
       ELSE IF call.argc < 3
       THEN /\ pc' = "exit"
            /\ error' = "IndexError"
            /\ UNCHANGED <<run, call, engine, disk, dstEPSG, last_error,
                           loopVars>>
       ELSE BeginProcess(DefaultEPSG)

\* a caller of LocustMapServerImporter(rootDir, url).process(dst), lines 76-84
CallProcess ==
  /\ pc = "start"
  /\ call.via = "process"
  /\ BeginProcess(call.dst)

\* ------------------------------------------------------------ process()
\* lines 85-88, and the return of process() after the last region
NextRegion ==
  /\ pc = "region"
  /\ IF ri = Len(disk)
       THEN /\ pc' = "done"
            /\ UNCHANGED <<ri, dateList, di, layerList>>
       ELSE /\ ri' = ri + 1
            /\ dateList' = [k \in 1..Len(disk[ri + 1]) |-> disk[ri + 1][k].name]
            /\ di' = 0
            /\ layerList' = <<>>
            /\ pc' = "date"
  /\ UNCHANGED <<run, call, engine, error, disk, dstEPSG, last_error,
                 listing, fi, inDt, latestDate, i, skipped, warped, removed,
                 exported>>

\* lines 92-95
SkipsDate(r, name) == name = Archive \/ ~EntryOf(disk, r, name).isDir

SkipDate ==
  /\ pc = "date" /\ di < Len(dateList)
  /\ SkipsDate(ri, dateList[di + 1])
  /\ di' = di + 1
  /\ UNCHANGED <<run, call, engine, pc, error, disk, dstEPSG, last_error, ri,
                 dateList, listing, fi, inDt, layerList, latestDate, i,
                 skipped, warped, removed, exported>>

\* lines 98-99
EnterDate ==
  /\ pc = "date" /\ di < Len(dateList)
  /\ ~SkipsDate(ri, dateList[di + 1])
  /\ di' = di + 1
  /\ listing' = Files(disk, ri, dateList[di + 1])
  /\ fi' = 0
  /\ skipped' = {}
  /\ warped' = {}
  /\ pc' = "file"
  /\ UNCHANGED <<run, call, engine, error, disk, dstEPSG, last_error, ri,
                 dateList, inDt, layerList, latestDate, i, removed, exported>>

\* the for loop of line 91 is exhausted
EndDates ==
  /\ pc = "date" /\ di = Len(dateList)
  /\ pc' = "sort"
  /\ UNCHANGED <<run, call, engine, error, disk, dstEPSG, last_error, loopVars>>

\* lines 100-101
SkipFile ==
  /\ pc = "file" /\ fi < Len(listing)
  /\ ~Qualifies(listing[fi + 1])
  /\ fi' = fi + 1
  /\ UNCHANGED <<run, call, engine, pc, error, disk, dstEPSG, last_error, ri,
                 dateList, di, listing, inDt, layerList, latestDate, i,
                 skipped, warped, removed, exported>>

\* the for loop of line 99 is exhausted
EndFiles ==
  /\ pc = "file" /\ fi = Len(listing)
  /\ pc' = "date"
  /\ UNCHANGED <<run, call, engine, error, disk, dstEPSG, last_error, loopVars>>


\* the operation of the raster engine that raises while fl is processed:
\* "open" gdal.Open(inFile), "warp" gdal.Warp, "ovropen" gdal.Open(overview),
\* "build" BuildOverviews, "extent" the reads of lines 131-133
FaultOn(fl) == IF fl = engine.file THEN engine.fault ELSE "none"

\* the operation during which the engine calls GDALErrorHandler.handler:
\* "pre" in _warpToEPSG, "ovr" in gdal.Open(overview), "post" after it
HookOn(fl) == IF fl = engine.file THEN engine.hook ELSE "none"

\* lines 127-135: the arguments of LayerInfo evaluate without raising
CanDescribeAnyDate(dname, handle, fault) ==
  handle # None /\ fault # "extent"

CanDescribe(dname, handle, fault) ==
  handle # None /\ fault # "extent" /\ ParseDate(dname) # NoDate

\* lines 126-136
Descriptor(dname, fl, handle, dst) ==
  [ relativePath |-> <<dname, fl>>,
    layerName |-> BaseName(fl),
    spatialReference |-> <<"EPSG:", Str(dst)>>,
    width |-> RasterOf(handle).RasterXSize,
    height |-> RasterOf(handle).RasterYSize,
    extent |-> getGDALRasterExtents(RasterOf(handle)),
    date |-> ParseDate(dname) ]

\* lines 138-139: where the loops resume after the except clause
PcAfterExceptOuter == "date"

PcAfterExcept == "file"

\* GDALErrorHandler.capture(), lines 28-31: raises when an error is stored
CaptureRaises(stored) == stored

\* lines 102-139 for the file listing[fi + 1], _warpToEPSG included
ProcessFile ==
  /\ pc = "file" /\ fi < Len(listing)
  /\ Qualifies(listing[fi + 1])
  /\ LET fl == listing[fi + 1]
         fault == FaultOn(fl)
         hook == HookOn(fl)
         dname == dateList[di]
         files0 == Files(disk, ri, dname)
         \* _warpToEPSG, lines 47-68
         opened == fault # "open"
         warp == opened /\ NeedsWarp(FileEPSG(fl), dstEPSG)
         warpRaises == warp /\ fault = "warp"
         dstFile == WarpName(dstEPSG, fl)
         written == warp /\ ~warpRaises
         files1 == IF written THEN AddFile(files0, dstFile) ELSE files0
         handle == IF ~opened THEN None ELSE IF warp THEN dstFile ELSE fl
         le1 == last_error \/ hook = "pre"
         \* lines 109-116
         overview == Overview(fl)
         exists == overview \in Range(files1)
         ovrRaises == exists /\ fault = "ovropen"
         le2 == le1 \/ (exists /\ hook = "ovr")
         captured == exists /\ ~ovrRaises /\ CaptureRaises(le2)
         remove == ovrRaises \/ captured
         le3 == IF exists /\ ~ovrRaises THEN FALSE ELSE le2
         files2 == IF remove THEN DelFile(files1, overview) ELSE files1
         \* lines 118-123
         mustBuild == ~exists \/ remove
         buildRaises == mustBuild /\ (handle = None \/ fault = "build")
         built == mustBuild /\ ~buildRaises
         files3 == IF built THEN AddFile(files2, Overview(handle)) ELSE files2
         le4 == le3 \/ hook = "post"
         \* lines 126-136
         describeRaises == ~CanDescribe(dname, handle, fault)
         raised == warpRaises \/ buildRaises \/ describeRaises
     IN /\ fi' = fi + 1
        /\ inDt' = IF warpRaises THEN inDt ELSE handle
        /\ disk' = SetFiles(disk, ri, dname,
                     IF warpRaises THEN files0
                     ELSE IF buildRaises THEN files2 ELSE files3)
        /\ last_error' = IF warpRaises THEN le1
                         ELSE IF buildRaises THEN le3 ELSE le4
        /\ warped' = IF written THEN warped \cup {<<dname, dstFile>>} ELSE warped
        /\ removed' = IF warpRaises \/ ~remove THEN "none"
                      ELSE IF ovrRaises THEN "raised"
                      ELSE IF hook = "ovr" THEN "hook" ELSE "stale"
        /\ IF raised
             THEN /\ layerList' = layerList
                  /\ skipped' = skipped \cup {<<dname, fl>>}
                  /\ pc' = PcAfterExcept
             ELSE /\ layerList' =
                       Append(layerList, Descriptor(dname, fl, handle, dstEPSG))
                  /\ skipped' = skipped
                  /\ pc' = "file"
  /\ UNCHANGED <<run, call, engine, error, dstEPSG, ri, dateList, di, listing,
                 latestDate, i, exported>>

\* ---------------------------------------------------------------- tagging
\* list.sort(key=lambda x: x.date, reverse=True): a stable sort, entries of
\* the same date keep their order
RECURSIVE InsertByDate(_, _)
InsertByDate(sorted, x) ==
  IF sorted = <<>> THEN <<x>>
  ELSE IF DateGreater(x.date, Head(sorted).date) THEN <<x>> \o sorted
  ELSE <<Head(sorted)>> \o InsertByDate(Tail(sorted), x)

RECURSIVE SortFrom(_, _)
SortFrom(sorted, rest) ==
  IF rest = <<>> THEN sorted
  ELSE SortFrom(InsertByDate(sorted, Head(rest)), Tail(rest))

SortUnsorted(list) == list

SortByDate(list) == SortFrom(<<>>, list)

\* lines 142-145
SortCatalog ==
  /\ pc = "sort"
  /\ layerList' = SortByDate(layerList)
  /\ IF layerList = <<>>
       THEN /\ pc' = "crashed"
            /\ error' = "IndexError:143"
            /\ UNCHANGED <<latestDate, i>>
       ELSE /\ latestDate' = SortByDate(layerList)[1].date
            /\ i' = 0
            /\ pc' = "tag"
            /\ error' = error
  /\ UNCHANGED <<run, call, engine, disk, dstEPSG, last_error, ri, dateList, di,
                 listing, fi, inDt, skipped, warped, removed, exported>>

\* line 147: layerList[i] with i counted from 0
WalkInRange(n, k) == k < n

\* one iteration of the while loop, lines 146-151
TagStep ==
  /\ pc = "tag"
  /\ IF ~WalkInRange(Len(layerList), i)
       THEN /\ pc' = "crashed"
            /\ error' = "IndexError:147"
            /\ UNCHANGED <<layerList, i>>
       ELSE IF layerList[i + 1].date = latestDate
       THEN /\ layerList' = [layerList EXCEPT ![i + 1].layerName =
                                Append(@, "_LATEST")]
            /\ i' = i + 1
            /\ UNCHANGED <<pc, error>>
       ELSE /\ pc' = "export"
            /\ UNCHANGED <<layerList, i, error>>
  /\ UNCHANGED <<run, call, engine, disk, dstEPSG, last_error, ri, dateList, di,
                 listing, fi, inDt, latestDate, skipped, warped, removed,
                 exported>>

\* lines 154-160
Export ==
  /\ pc = "export"
  /\ exported' = Append(exported, ri)
  /\ pc' = "region"
  /\ UNCHANGED <<run, call, engine, error, disk, dstEPSG, last_error, ri, dateList,
                 di, listing, fi, inDt, layerList, latestDate, i, skipped,
                 warped, removed>>

\* the same invocation is made again on the same root directory
Rerun ==
  /\ pc \in {"done", "crashed", "exit"}
  /\ run < MaxRuns
  /\ run' = run + 1
  /\ pc' = "start"
  /\ error' = "none"
  /\ dstEPSG' = DefaultEPSG
  /\ last_error' = FALSE
  /\ ri' = 0
  /\ dateList' = <<>>
  /\ di' = 0
  /\ listing' = <<>>
  /\ fi' = 0
  /\ inDt' = None
  /\ layerList' = <<>>
  /\ latestDate' = NoDate
  /\ i' = 0
  /\ skipped' = {}
  /\ warped' = {}
  /\ removed' = "none"
  /\ exported' = <<>>
  /\ UNCHANGED <<call, engine, disk>>

Next ==
  \/ Main
  \/ CallProcess
  \/ NextRegion
  \/ SkipDate
  \/ EnterDate
  \/ EndDates
  \/ SkipFile
  \/ ProcessFile
  \/ EndFiles
  \/ SortCatalog
  \/ TagStep
  \/ Export
  \/ Rerun

Spec == Init /\ [][Next]_vars


\* ================================================================== claims
Paths(list) == {list[k].relativePath : k \in 1..Len(list)}

Tagged(d) == Len(d.layerName) > 0 /\ d.layerName[Len(d.layerName)] = "_LATEST"

IsMaxDate(list, date) == \A k \in 1..Len(list) : ~DateGreater(list[k].date, date)

\* the walk of lines 146-151 is over: it stopped at an entry of another
\* date, or it ran off the end of the list
TagPassOver == pc = "export" \/ (pc = "crashed" /\ error = "IndexError:147")

\* the date directories of the current region that line 92 lets through
WalkedDirs == {k \in 1..Len(disk[ri]) : ~SkipsDate(ri, disk[ri][k].name)}

\* C1: once the sort-and-tag pass over a non-empty catalog is over, an entry
\* carries the _LATEST suffix if and only if its date is the maximum date of
\* the catalog, so as many entries are suffixed as lie on the maximum date.
C1_LatestIffMaxDate ==
  TagPassOver =>
    /\ \A k \in 1..Len(layerList) :
         Tagged(layerList[k]) <=> IsMaxDate(layerList, layerList[k].date)
    /\ Cardinality({k \in 1..Len(layerList) : Tagged(layerList[k])})
         = Cardinality({k \in 1..Len(layerList) :
                          IsMaxDate(layerList, layerList[k].date)})

C1_Witness ==
  /\ pc = "export"
  /\ Cardinality({k \in 1..Len(layerList) : Tagged(layerList[k])}) >= 2
  /\ \E k \in 1..Len(layerList) : ~Tagged(layerList[k])

\* C2: for a region that produced at least one descriptor the tagging walk
\* stops normally and the exporter is called exactly once for the region.
C2_WalkStopsAndExportsOnce ==
  /\ pc = "crashed" => layerList = <<>>
  /\ (pc = "region" /\ ri > 0 /\ layerList # <<>>) =>
       Cardinality({k \in 1..Len(exported) : exported[k] = ri}) = 1

\* C3: a region that produces zero layers ends its own processing only:
\* the regions iterated after it are still processed.
C3_EmptyRegionIsolated ==
  (pc = "crashed" /\ error = "IndexError:143") => ri = Len(disk)

C5_FileErrorIsolated ==
  /\ pc = "file" =>
       \A k \in 1..fi :
         Qualifies(listing[k]) =>
           (<<dateList[di], listing[k]>> \in skipped
              <=> <<dateList[di], listing[k]>> \notin Paths(layerList))
  /\ pc = "sort" =>
       \A k \in WalkedDirs :
         ParseDate(disk[ri][k].name) # NoDate =>
           \A f \in Range(disk[ri][k].files) :
             (Qualifies(f) /\ ~IsArtifact(f) /\ f # engine.file) =>
               <<disk[ri][k].name, f>> \in Paths(layerList)

C5_Witness ==
  /\ pc = "sort"
  /\ engine.file = FileB /\ engine.fault \in {"open", "warp", "build", "extent"}
  /\ Paths(layerList) = {<<Dir0115, FileA>>}
  /\ Dir0101 \in Range(dateList)

\* C6: for a raster whose authority code equals the destination code,
\* _warpToEPSG returns the handle opened on the original path, does not
\* call gdal.Warp and writes no file.
C6_PassThrough ==
  (/\ pc = "file" /\ fi > 0
   /\ Qualifies(listing[fi])
   /\ FileEPSG(listing[fi]) = dstEPSG
   /\ FaultOn(listing[fi]) # "open") =>
    /\ inDt = listing[fi]
    /\ <<dateList[di], WarpName(dstEPSG, listing[fi])>> \notin warped
    /\ WarpName(dstEPSG, listing[fi])
         \notin Range(Files(disk, ri, dateList[di]))

C6_Witness ==
  /\ pc = "file" /\ fi > 0
  /\ listing[fi] = FileA
  /\ dstEPSG = FileEPSG(FileA)
  /\ inDt = FileA
  /\ <<dateList[di], FileA>> \in Paths(layerList)

\* C7: main() with both required arguments runs process(); with one
\* missing it exits with the usage message.
C7_MainUsage ==
  (call.via = "main" /\ pc = "exit") =>
    (call.argc < 3 /\ error = "AssertionError: usage")

\* C8: an overview is removed only if its own open raised or the error
\* handler was called during that open.
C8_RemoveOnlyOnOwnError == removed # "stale"

\* C9: a raster that needs reprojection is warped again on every run,
\* whether or not the output is already there; a file written during the
\* walk of a directory is not selected in that walk; a reprojected file
\* that is found in the listing is selected like any other file.
C9_NotIdempotent ==
  pc = "file" =>
    /\ \A k \in 1..fi :
         (/\ Qualifies(listing[k])
          /\ FileEPSG(listing[k]) # dstEPSG
          /\ FaultOn(listing[k]) \notin {"open", "warp"}) =>
           <<dateList[di], WarpName(dstEPSG, listing[k])>> \in warped
    /\ \A w \in warped :
         w[2] \notin Range(listing) =>
           w \notin skipped /\ w \notin Paths(layerList)
    /\ fi = Len(listing) =>
         \A k \in 1..Len(listing) :
           (IsArtifact(listing[k]) /\ ~EndsWithOvr(listing[k])) =>
             \/ <<dateList[di], listing[k]>> \in skipped
             \/ <<dateList[di], listing[k]>> \in Paths(layerList)

C9_Witness ==
  /\ run = 2 /\ pc = "file"
  /\ WarpName(dstEPSG, FileB) \in Range(listing)
  /\ <<dateList[di], WarpName(dstEPSG, FileB)>> \in warped
  /\ <<dateList[di], WarpName(dstEPSG, FileB)>> \in Paths(layerList)

\* C10: every descriptor describes the file its relativePath names: the
\* recorded reference, size and extent are those of that file.
C10_DescriptorDescribesItsFile ==
  \A k \in 1..Len(layerList) :
    LET d == layerList[k]
        r == RasterOf(d.relativePath[2])
    IN /\ d.spatialReference = <<"EPSG:", Str(r.epsg)>>
       /\ d.width = r.RasterXSize
       /\ d.height = r.RasterYSize
       /\ d.extent = getGDALRasterExtents(r)

====
